---- MODULE Spec2Model ----
(***************************************************************************)
(* Model of src/lambdas/YoutubeDownloader/lambda_function.py:              *)
(* one invocation of lambda_handler, with get_proxy_list and check_proxy.  *)
(*                                                                         *)
(* Strings that the code takes apart (the proxy list body) are sequences   *)
(* of tokens: "http://" stands for a substring beginning with `http`,      *)
(* "a" for a substring that does not, CRLF for the two characters \r\n.    *)
(* A line is a sequence of tokens without CRLF.  Python's None is the      *)
(* string "None" where the field is otherwise a string.                    *)
(***************************************************************************)
EXTENDS Naturals, Sequences, FiniteSets

VARIABLES
  pc,          \* position of the invocation in lambda_handler / get_proxy_list
  event,       \* the event the handler is invoked with
  uri,         \* lambda_handler: uri
  response,    \* get_proxy_list: response of the list provider
  proxies,     \* get_proxy_list: response.text.split("\r\n")
  idx,         \* get_proxy_list: position of the for loop in proxies
  proxy,       \* lambda_handler: proxy (the value get_proxy_list returned)
  info,        \* lambda_handler: info
  best_format, \* lambda_handler: best_format
  result,      \* how the invocation ended: a returned value or a raised exception
  trace        \* the calls made to the outside, in order

vars == <<pc, event, uri, response, proxies, idx, proxy, info, best_format, result, trace>>

\* ---------------------------------------------------------------- bounds

\* Longest proxy list body, in tokens.
MaxText == 5

\* Longest formats list the extractor returns.
MaxFormats == 3

\* ---------------------------------------------------------------- values

None == "None"
CRLF == "\r\n"
Tokens == {"http://", "a", CRLF}

SeqsUpTo(S, n) == UNION {[1..k -> S] : k \in 0..n}

\* The events: any subset of the fields uri and other; uri may be null.
\* The uri is the one of the call the module makes when it is loaded (line 154).
Events ==
  { [other |-> "x"] }
  \cup { [uri |-> u] : u \in {"https://www.youtube.com/watch?v=4ZmGmryMKI4", None} }
  \cup { [uri |-> u, other |-> "x"] : u \in {"https://www.youtube.com/watch?v=4ZmGmryMKI4", None} }
  \cup { [k \in {} |-> "x"] }

\* What requests.get(url, params=params) may give back: a response with a
\* status and a body, or an exception of the HTTP client.
ListResponses ==
  { [error |-> FALSE, status |-> s, text |-> t] : s \in {200, 503}, t \in SeqsUpTo(Tokens, MaxText) }
  \cup { [error |-> TRUE, status |-> 0, text |-> <<>>] }

\* What the probe's requests.get may end in.
ProbeOutcomes == {"200", "503", "ConnectionError", "Timeout"}

\* Container and transport of an entry of info["formats"].
FormatKinds == [ext : {"mp4", "webm"}, protocol : {"https", "http"}]

\* The formats lists of the extractor: every entry has a container, a
\* transport and a resolved address of its own (the i-th entry's is i).
FormatLists ==
  { [i \in 1..Len(ks) |-> [ext |-> ks[i].ext, protocol |-> ks[i].protocol, url |-> i]] :
      ks \in SeqsUpTo(FormatKinds, MaxFormats) }

Metadata ==
  [id |-> "4ZmGmryMKI4", title |-> "t", description |-> "d", thumbnail |-> "i",
   timestamp |-> "p", uploader_id |-> "ui", uploader |-> "un"]

\* What ytdl.extract_info may end in: an exception, an info dict with a
\* formats list, an info dict without one.
ExtractOutcomes ==
  { [raised |-> TRUE, info |-> Metadata] }
  \cup { [raised |-> FALSE, info |-> Metadata] }
  \cup { [raised |-> FALSE,
          info |-> [k \in DOMAIN Metadata \cup {"formats"} |->
                      IF k = "formats" THEN f ELSE Metadata[k]]] : f \in FormatLists }

\* ---------------------------------------------------------------- results

Pending == [kind |-> "pending", statusCode |-> 0, body |-> [message |-> None], exc |-> None, msg |-> None]
Return(status, body) == [kind |-> "response", statusCode |-> status, body |-> body, exc |-> None, msg |-> None]
ReturnNone == [kind |-> "none", statusCode |-> 0, body |-> [message |-> None], exc |-> None, msg |-> None]
Raise(exc, msg) == [kind |-> "raise", statusCode |-> 0, body |-> [message |-> None], exc |-> exc, msg |-> msg]

Call(op, i, p, o) == [op |-> op, idx |-> i, proxy |-> p, outcome |-> o]

\* ---------------------------------------------------------------- helpers

\* dict.get(key): None when the key is absent.
Get(d, key) == IF key \in DOMAIN d THEN d[key] ELSE None

uri_is_other_key(ev) == Get(ev, "other") = None

\* lambda_handler: `uri is None` for uri = event.get("uri")
uri_is_None(ev) == Get(ev, "uri") = None

\* str.split("\r\n")
RECURSIVE Split(_)
Split(t) ==
  IF \A i \in 1..Len(t) : t[i] # CRLF
  THEN <<t>>
  ELSE LET k == CHOOSE i \in 1..Len(t) : t[i] = CRLF /\ \A j \in 1..(i-1) : t[j] # CRLF
       IN  <<SubSeq(t, 1, k-1)>> \o Split(SubSeq(t, k+1, Len(t)))

contains_http(line) == \E i \in 1..Len(line) : line[i] = "http://"

\* proxy.startswith("http")
startswith_http(line) == Len(line) > 0 /\ line[1] = "http://"

list_error_status_only(r) ==
  IF r.status # 200 THEN "Failed to get proxy list" ELSE None

\* get_proxy_list: the checks of the provider's response; the message of the
\* exception raised, or None.  (response.content is bytes and never equals 0.)
list_error(r) ==
  IF r.status # 200 THEN "Failed to get proxy list"
  ELSE IF r.text = <<>> THEN "Empty response"
  ELSE None

check_proxy_any_status(o) ==
  IF o \in {"200", "503"} THEN "True" ELSE "False"

check_proxy_timeout_fatal(o) ==
  IF o = "200" THEN "True"
  ELSE IF o = "Timeout" THEN "Raise"
  ELSE "False"

\* check_proxy: True on status 200, False on another status and on a
\* RequestException (ConnectionError and Timeout are RequestExceptions).
check_proxy(o) ==
  IF o \in {"ConnectionError", "Timeout"} THEN "False"
  ELSE IF o = "200" THEN "True"
  ELSE "False"

options_without_proxy(p) == [format |-> "bestvideo*+bestaudio/best", proxy |-> <<>>]

\* lambda_handler: options
options(p) == [format |-> "bestvideo*+bestaudio/best", proxy |-> p]

\* formats[::-1]
Reverse(s) == [i \in 1..Len(s) |-> s[Len(s) + 1 - i]]

is_https(x) == x.protocol = "https"

\* lambda x: x.get("ext") == "mp4" and x.get("protocol") == "https"
is_mp4_https(x) == x.ext = "mp4" /\ x.protocol = "https"

filtered_unreversed(formats) == SelectSeq(formats, is_mp4_https)

\* list(filter(..., formats[::-1]))
filtered_formats(formats) == SelectSeq(Reverse(formats), is_mp4_https)

\* "video/mp4", as type and subtype
VideoMp4 == <<"video", "mp4">>

\* lambda_handler: response_data
response_data(i, f) ==
  [videoId |-> Get(i, "id"), videoUrl |-> f.url, title |-> Get(i, "title"),
   description |-> Get(i, "description"), imageUri |-> Get(i, "thumbnail"),
   published |-> Get(i, "timestamp"), uploaderId |-> Get(i, "uploader_id"),
   uploaderName |-> Get(i, "uploader"), ext |-> f.ext, mimeType |-> VideoMp4]

NoFormat == [ext |-> None, protocol |-> None, url |-> 0]

\* ---------------------------------------------------------------- behaviour

Init ==
  /\ pc = "start"
  /\ event \in Events
  /\ uri = None
  /\ response = [error |-> FALSE, status |-> 0, text |-> <<>>]
  /\ proxies = <<>>
  /\ idx = 0
  /\ proxy = <<>>
  /\ info = Metadata
  /\ best_format = NoFormat
  /\ result = Pending
  /\ trace = <<>>

\* lambda_handler, lines 40-45
Validate ==
  /\ pc = "start"
  /\ uri' = Get(event, "uri")
  /\ IF uri_is_None(event)
     THEN /\ result' = Return(400, [message |-> "uri is required"])
          /\ pc' = "done"
     ELSE /\ result' = result
          /\ pc' = "get_proxy_list"
  /\ UNCHANGED <<event, response, proxies, idx, proxy, info, best_format, trace>>

\* get_proxy_list, lines 134-143
FetchProxyList ==
  /\ pc = "get_proxy_list"
  /\ \E r \in ListResponses :
       /\ response' = r
       /\ trace' = Append(trace, Call("fetch", 0, <<>>, None))
       /\ IF r.error
          THEN /\ result' = Raise("ConnectionError", "requests")
               /\ pc' = "done"
               /\ UNCHANGED <<proxies, idx>>
          ELSE IF list_error(r) # None
          THEN /\ result' = Raise("Exception", list_error(r))
               /\ pc' = "done"
               /\ UNCHANGED <<proxies, idx>>
          ELSE /\ proxies' = Split(r.text)
               /\ idx' = 1
               /\ pc' = "for"
               /\ result' = result
  /\ UNCHANGED <<event, uri, proxy, info, best_format>>

\* get_proxy_list, lines 144-146 and 151: the head of the for loop
ForProxy ==
  /\ pc = "for"
  /\ IF idx > Len(proxies)
     THEN /\ result' = Raise("Exception", "No proxies available")
          /\ pc' = "done"
          /\ idx' = idx
     ELSE IF ~startswith_http(proxies[idx])
     THEN /\ idx' = idx + 1
          /\ UNCHANGED <<pc, result>>
     ELSE /\ pc' = "check_proxy"
          /\ UNCHANGED <<idx, result>>
  /\ UNCHANGED <<event, uri, response, proxies, proxy, info, best_format, trace>>

\* get_proxy_list, lines 148-149, with check_proxy, lines 102-119
CheckProxy ==
  /\ pc = "check_proxy"
  /\ \E o \in ProbeOutcomes :
       /\ trace' = Append(trace, Call("probe", idx, proxies[idx], o))
       /\ IF check_proxy(o) = "True"
          THEN /\ proxy' = proxies[idx]
               /\ pc' = "extract"
               /\ result' = result
          ELSE IF check_proxy(o) = "False"
          THEN /\ pc' = "sleep"
               /\ UNCHANGED <<proxy, result>>
          ELSE /\ result' = Raise(o, "requests")
               /\ pc' = "done"
               /\ proxy' = proxy
  /\ UNCHANGED <<event, uri, response, proxies, idx, info, best_format>>

\* get_proxy_list, line 150, and the step of the for loop
Sleep ==
  /\ pc = "sleep"
  /\ trace' = Append(trace, Call("sleep", idx, <<>>, None))
  /\ idx' = idx + 1
  /\ pc' = "for"
  /\ UNCHANGED <<event, uri, response, proxies, proxy, info, best_format, result>>

\* lambda_handler, lines 50-70
Extract ==
  /\ pc = "extract"
  /\ \E o \in ExtractOutcomes :
       /\ trace' = Append(trace, Call("extract", 0, options(proxy).proxy,
                                      IF o.raised THEN "raised" ELSE "info"))
       /\ IF o.raised
          THEN /\ result' = ReturnNone
               /\ pc' = "done"
               /\ info' = info
          ELSE /\ info' = o.info
               /\ pc' = "select"
               /\ result' = result
  /\ UNCHANGED <<event, uri, response, proxies, idx, proxy, best_format>>

\* lambda_handler, lines 74-100
Select ==
  /\ pc = "select"
  /\ IF "formats" \notin DOMAIN info
     THEN /\ result' = Raise("TypeError", "'NoneType' object is not subscriptable")
          /\ best_format' = best_format
     ELSE IF filtered_formats(info.formats) = <<>>
     THEN /\ result' = Raise("IndexError", "list index out of range")
          /\ best_format' = best_format
     ELSE /\ best_format' = filtered_formats(info.formats)[1]
          /\ result' = Return(200, response_data(info, best_format'))
  /\ pc' = "done"
  /\ UNCHANGED <<event, uri, response, proxies, idx, proxy, info, trace>>

Next ==
  \/ Validate
  \/ FetchProxyList
  \/ ForProxy
  \/ CheckProxy
  \/ Sleep
  \/ Extract
  \/ Select

Spec == Init /\ [][Next]_vars

\* ---------------------------------------------------------------- properties

IsProbe(c) == c.op = "probe"
IsSleep(c) == c.op = "sleep"
IsExtract(c) == c.op = "extract"

\* The probes made so far, in order.
Probes == SelectSeq(trace, IsProbe)

\* A line that begins with `http`.
IsHttpLine(line) == line # <<>> /\ Head(line) = "http://"

\* get_proxy_list has returned a proxy to lambda_handler.
Acquired == pc = "extract" \/ \E j \in 1..Len(trace) : IsExtract(trace[j])

\* The provider answered 200 with a body, so the scan of the list was started.
ScanStarted == trace # <<>> /\ ~response.error /\ response.status = 200 /\ response.text # <<>>

\* The extractor returned an info dict that holds a formats list.
Extracted == pc = "done" /\ "formats" \in DOMAIN info

\* The positions of the entries that satisfy the mp4/https predicate.
MatchIdx(f) == {i \in 1..Len(f) : f[i].ext = "mp4" /\ f[i].protocol = "https"}

Max(S) == CHOOSE m \in S : \A x \in S : x <= m

\* How many of the probes P were of line i.
TimesProbed(P, i) == Cardinality({j \in 1..Len(P) : P[j].idx = i})

\* C1: an event without a uri field ends, whatever else it carries, in the
\* response 400 {message: "uri is required"}, and no call to the outside
\* (proxy list, probe, extractor) is made.
C1_MissingUriRejected ==
  ("uri" \notin DOMAIN event /\ pc # "start") =>
     /\ pc = "done"
     /\ result.kind = "response"
     /\ result.statusCode = 400
     /\ result.body = [message |-> "uri is required"]
     /\ trace = <<>>

C1_Witness == "uri" \notin DOMAIN event /\ "other" \in DOMAIN event /\ pc = "done"

\* C2: only lines that begin with http are ever probed, and when
\* get_proxy_list returns a proxy it is the line of the last probe, that probe
\* succeeded, every probe before it failed, and the lines probed are exactly
\* the http lines up to it, each once, in list order.
C2_FirstValidatedWins ==
  LET P == Probes
      n == Len(P)
  IN  /\ \A j \in 1..n :
           /\ P[j].idx \in 1..Len(proxies)
           /\ P[j].proxy = proxies[P[j].idx]
           /\ IsHttpLine(P[j].proxy)
      /\ Acquired =>
           /\ n >= 1
           /\ P[n].outcome = "200"
           /\ proxy = proxies[P[n].idx]
           /\ \A j \in 1..(n-1) : P[j].outcome # "200" /\ P[j].idx < P[j+1].idx
           /\ \A i \in 1..Len(proxies) :
                TimesProbed(P, i) = IF i <= P[n].idx /\ IsHttpLine(proxies[i]) THEN 1 ELSE 0

\* Candidates [a, b], a fails and b succeeds: b is returned after 2 probes.
C2_Witness ==
  /\ Acquired
  /\ Len(Probes) = 2
  /\ Probes[1].proxy # Probes[2].proxy
  /\ proxy = Probes[2].proxy

\* C3: when the formats list holds an mp4/https entry, the selected format is
\* the entry of greatest index among those that satisfy the predicate.
C3_BestMatchingFormat ==
  (Extracted /\ MatchIdx(info.formats) # {}) =>
     /\ result.kind = "response"
     /\ best_format = info.formats[Max(MatchIdx(info.formats))]

\* [webm/https, mp4/https, mp4/http]: the middle entry is selected.
C3_Witness ==
  /\ Extracted
  /\ Len(info.formats) = 3
  /\ info.formats[1].ext = "webm" /\ info.formats[1].protocol = "https"
  /\ MatchIdx(info.formats) = {2}
  /\ info.formats[3].ext = "mp4" /\ info.formats[3].protocol = "http"
  /\ best_format = info.formats[2]

\* C4: an extraction result without an mp4/https entry ends in an explicit
\* failure response and never in an unhandled index error.
C4_NoSuitableFormatExplicit ==
  (Extracted /\ MatchIdx(info.formats) = {}) =>
     /\ result.kind = "response"
     /\ result.statusCode >= 400

\* C5: when proxy acquisition fails or the extractor raises, the handler
\* still returns {statusCode, body: {message}} with a failure status code.
C5_FailuresAreResponses ==
  (/\ pc = "done"
   /\ \/ trace # <<>> /\ ~Acquired
      \/ \E j \in 1..Len(trace) : IsExtract(trace[j]) /\ trace[j].outcome = "raised") =>
     /\ result.kind = "response"
     /\ result.statusCode >= 400

\* C6: in a 200 response mimeType is "video/" + ext, ext being the container
\* of the selected format.
C6_MimeTypeMatchesExt ==
  (result.kind = "response" /\ result.statusCode = 200) =>
     /\ result.body.ext = best_format.ext
     /\ result.body.mimeType = <<"video", result.body.ext>>

C6_Witness ==
  /\ result.kind = "response" /\ result.statusCode = 200
  /\ Len(info.formats) = 2
  /\ info.formats[2].ext = "webm"

\* C7: a non-200 status or an empty body from the list provider ends
\* get_proxy_list in a proxy-list failure, other than the no-proxy-available
\* failure, with no probe and no delay.
C7_ListFailureBeforeProbe ==
  (trace # <<>> /\ ~response.error /\ (response.status # 200 \/ response.text = <<>>)) =>
     /\ pc = "done"
     /\ result.kind = "raise"
     /\ result.msg \in {"Failed to get proxy list", "Empty response"}
     /\ result.msg # "No proxies available"
     /\ Len(trace) = 1 /\ trace[1].op = "fetch"

C7_Witness ==
  /\ pc = "done"
  /\ trace # <<>>
  /\ response.status = 200
  /\ response.text = <<>>
  /\ ~response.error

\* C8: no line is probed twice, the loop never passes the end of the list and
\* the calls made are at most two per line (a probe and a delay);
\* a proxy is returned only after a probe that succeeded; and a scan in which
\* no probe succeeded ends in the no-proxy-available failure after probing
\* every http line once and no other line.
C8_ScanBoundedAndFails ==
  LET P == Probes
      n == Len(P)
  IN  /\ idx <= Len(proxies) + 1
      /\ Len(trace) <= 2 * Len(proxies) + 2
      /\ \A i \in 1..Len(proxies) : TimesProbed(P, i) <= 1
      /\ Acquired => (n >= 1 /\ P[n].outcome = "200")
      /\ (pc = "done" /\ ScanStarted /\ \A j \in 1..n : P[j].outcome # "200") =>
           /\ result.kind = "raise"
           /\ result.msg = "No proxies available"
           /\ \A i \in 1..Len(proxies) :
                TimesProbed(P, i) = IF IsHttpLine(proxies[i]) THEN 1 ELSE 0

C8_Witness ==
  /\ pc = "done"
  /\ result.msg = "No proxies available"
  /\ Len(Probes) = 2
  /\ \E i \in 1..Len(proxies) : ~IsHttpLine(proxies[i])

\* C9: a failed probe ends nothing: it is followed at once by one delay, and
\* the scan goes on behind the delay; a delay follows a failed probe only; a
\* successful probe is followed at once by the return of its proxy.
C9_FailedProbeThenDelay ==
  \A j \in 1..Len(trace) :
    /\ (IsProbe(trace[j]) /\ trace[j].outcome # "200") =>
          IF j = Len(trace) THEN pc = "sleep" /\ result.kind = "pending"
          ELSE IsSleep(trace[j+1])
    /\ (IsProbe(trace[j]) /\ trace[j].outcome = "200") =>
          IF j = Len(trace) THEN pc = "extract" /\ proxy = trace[j].proxy
          ELSE IsExtract(trace[j+1])
    /\ IsSleep(trace[j]) =>
          /\ j > 1 /\ IsProbe(trace[j-1]) /\ trace[j-1].outcome # "200"
          /\ IF j = Len(trace)
             THEN \/ pc \in {"for", "check_proxy"}
                  \/ pc = "done" /\ result.msg = "No proxies available"
             ELSE IsProbe(trace[j+1]) /\ trace[j+1].idx > trace[j-1].idx

C9_Witness ==
  /\ Len(trace) = 5
  /\ IsProbe(trace[2]) /\ trace[2].outcome = "Timeout"
  /\ IsSleep(trace[3])
  /\ IsProbe(trace[4]) /\ trace[4].outcome = "200"
  /\ IsExtract(trace[5])

\* C10: the extractor is invoked at most once, right after the successful
\* probe and with the proxy of that probe; a 200 response comes only from an
\* extraction that succeeded with an mp4/https entry, and carries the url and
\* ext of the selected format.
C10_StageOrdering ==
  /\ Cardinality({j \in 1..Len(trace) : IsExtract(trace[j])}) <= 1
  /\ \A j \in 1..Len(trace) : IsExtract(trace[j]) =>
       /\ j > 1
       /\ IsProbe(trace[j-1]) /\ trace[j-1].outcome = "200"
       /\ trace[j].proxy = trace[j-1].proxy
       /\ trace[j].proxy = proxy
  /\ (result.kind = "response" /\ result.statusCode = 200) =>
       /\ \E j \in 1..Len(trace) : IsExtract(trace[j]) /\ trace[j].outcome = "info"
       /\ "formats" \in DOMAIN info
       /\ \E i \in MatchIdx(info.formats) : best_format = info.formats[i]
       /\ result.body.videoUrl = best_format.url
       /\ result.body.ext = best_format.ext

C10_Witness ==
  /\ result.kind = "response" /\ result.statusCode = 200
  /\ Len(Probes) = 2
  /\ result.body.videoUrl = 2

====
